---- MODULE Spec2Model ----
(***************************************************************************)
(* gtpp.py: a line-by-line post-processor of googletest output.            *)
(* Parser classifies each input line with an ordered list of regular       *)
(* expressions and calls an output sink; ListOutput is the sink that       *)
(* paints the terminal.  Lines are modelled as the strings they are and    *)
(* the regular expressions by matchers over their characters.              *)
(***************************************************************************)
EXTENDS Integers, Sequences, FiniteSets, TLC

(***************************************************************************)
(* Python's None and optional values: None is the empty tuple, a present   *)
(* value v is <<v>>.                                                       *)
(***************************************************************************)
None == <<>>

Some(v) == <<v>>

\* Python truthiness of an optional string: None and '' are both false.
Truthy(o) == o /= None /\ o[1] /= ""

(***************************************************************************)
(* Characters of a string                                                  *)
(***************************************************************************)
Char(s, i) == SubSeq(s, i, i)

Sub(s, a, b) == IF b < a THEN "" ELSE SubSeq(s, a, b)

IsDigit(c) == c \in {"0", "1", "2", "3", "4", "5", "6", "7", "8", "9"}

DigitVal(c) == CASE c = "0" -> 0 [] c = "1" -> 1 [] c = "2" -> 2 [] c = "3" -> 3
                 [] c = "4" -> 4 [] c = "5" -> 5 [] c = "6" -> 6 [] c = "7" -> 7
                 [] c = "8" -> 8 [] c = "9" -> 9

\* int(s) for a string of decimal digits (what (\d+) captures).
RECURSIVE int(_)
int(s) == IF Len(s) = 0 THEN 0
          ELSE 10 * int(Sub(s, 1, Len(s) - 1)) + DigitVal(Char(s, Len(s)))

\* str(n) and '%i' % n for an integer n.
str(n) == ToString(n)

\* ' ' * n
RECURSIVE Spaces(_)
Spaces(n) == IF n <= 0 THEN "" ELSE " " \o Spaces(n - 1)

Max(a, b) == IF a >= b THEN a ELSE b

SetMin(S) == CHOOSE x \in S : \A y \in S : x <= y

SetMax(S) == CHOOSE x \in S : \A y \in S : x >= y

(***************************************************************************)
(* Pieces of regular expressions.  A position is an index into the string; *)
(* 0 stands for "no match".                                                *)
(***************************************************************************)
StartsAt(s, i, lit) ==
    /\ i >= 1
    /\ i + Len(lit) - 1 <= Len(s)
    /\ SubSeq(s, i, i + Len(lit) - 1) = lit

\* a literal
Lit(s, i, lit) == IF i > 0 /\ StartsAt(s, i, lit) THEN i + Len(lit) ELSE 0

\* lit? (greedy; every use is followed by text that cannot start with lit)
Opt(s, i, lit) == IF i > 0 /\ StartsAt(s, i, lit) THEN i + Len(lit) ELSE i

\* c* : the first position at or after i that does not hold c
RECURSIVE Many0(_, _, _)
Many0(s, i, c) ==
    IF i = 0 THEN 0
    ELSE IF i <= Len(s) /\ Char(s, i) = c THEN Many0(s, i + 1, c) ELSE i

\* c+
Many1(s, i, c) == IF i > 0 /\ StartsAt(s, i, c) THEN Many0(s, i, c) ELSE 0

\* \d* and \d+
RECURSIVE Digits0(_, _)
Digits0(s, i) ==
    IF i = 0 THEN 0
    ELSE IF i <= Len(s) /\ IsDigit(Char(s, i)) THEN Digits0(s, i + 1) ELSE i

Digits1(s, i) ==
    IF i > 0 /\ i <= Len(s) /\ IsDigit(Char(s, i)) THEN Digits0(s, i) ELSE 0

\* The last position '.' can match and '$' can follow: '.' does not match
\* the newline that ends a line read from sys.stdin, '$' matches before it.
LineEnd(s) == IF Len(s) > 0 /\ Char(s, Len(s)) = "\n" THEN Len(s) - 1 ELSE Len(s)

\* TIME_RE, taken (not skipped), from position i up to '$': the captured
\* digits, or None.
TimeAt(s, i) ==
    LET a == Lit(s, i, " (")
        b == Digits1(s, a)
        c == Lit(s, b, " ms")
        d == Opt(s, c, " total")
        e == Lit(s, d, ")")
    IN  IF e > 0 /\ e = LineEnd(s) + 1 THEN Some(Sub(s, a, b - 1)) ELSE None

\* (.*?) from position j, followed by TIME_RE and '$': the last position of
\* the shortest capture after which TIME_RE matches up to '$', or after
\* which TIME_RE is skipped and '$' matches.
LazyEnd(s, j) ==
    SetMin({n \in (j - 1)..LineEnd(s) : TimeAt(s, n + 1) /= None \/ n = LineEnd(s)})

(***************************************************************************)
(* The five patterns of Parser, in the order they are registered.  Each    *)
(* matcher gives m.groups() of regex.search(line): None when nothing       *)
(* matches, else the tuple of groups, a group that took no part in the     *)
(* match being None.                                                       *)
(***************************************************************************)
\* regex.search: the leftmost position where the pattern matches
\* (at[i] is what the pattern gives when tried at position i)
Search(at) ==
    LET hits == {i \in DOMAIN at : at[i] /= None}
    IN  IF hits = {} THEN None ELSE at[SetMin(hits)]

\* r'Running (\d+) tests? from (\d+) test cases?'
StartAt(s, i) ==
    LET a == Lit(s, i, "Running ")
        b == Digits1(s, a)
        c == Lit(s, b, " test")
        d == Opt(s, c, "s")
        e == Lit(s, d, " from ")
        f == Digits1(s, e)
        g == Lit(s, f, " test case")
    IN  IF g > 0 THEN Some(<<Some(Sub(s, a, b - 1)), Some(Sub(s, e, f - 1))>>)
        ELSE None

\* r'\[-+\] (\d+) tests? from (.*?)(?:, where (.*?))?' + TIME_RE + '$'
\* The name is the shortest text after which ", where " follows, or TIME_RE
\* up to '$', or '$' itself; the where group is tried before it is skipped.
TestCaseAt(s, i) ==
    LET a == Lit(s, i, "[")
        b == Many1(s, a, "-")
        c == Lit(s, b, "] ")
        d == Digits1(s, c)
        e == Lit(s, d, " test")
        f == Opt(s, e, "s")
        j == Lit(s, f, " from ")
        n == SetMin({k \in (j - 1)..LineEnd(s) :
                       \/ StartsAt(s, k + 1, ", where ")
                       \/ TimeAt(s, k + 1) /= None
                       \/ k = LineEnd(s)})
        ws == n + 1 + Len(", where ")
        m == LazyEnd(s, ws)
    IN  IF j = 0 THEN None
        ELSE IF StartsAt(s, n + 1, ", where ")
        THEN Some(<<Some(Sub(s, c, d - 1)), Some(Sub(s, j, n)),
                    Some(Sub(s, ws, m)), TimeAt(s, m + 1)>>)
        ELSE Some(<<Some(Sub(s, c, d - 1)), Some(Sub(s, j, n)),
                    None, TimeAt(s, n + 1)>>)

\* r'\[ *RUN *\] (.*)\.(.*)' : the greedy first group ends at the last '.'
StartTestAt(s, i) ==
    LET a == Lit(s, i, "[")
        b == Many0(s, a, " ")
        c == Lit(s, b, "RUN")
        d == Many0(s, c, " ")
        j == Lit(s, d, "] ")
        dots == {k \in j..LineEnd(s) : Char(s, k) = "."}
        dot == SetMax(dots)
    IN  IF j = 0 \/ dots = {} THEN None
        ELSE Some(<<Some(Sub(s, j, dot - 1)), Some(Sub(s, dot + 1, LineEnd(s)))>>)

\* r'\[ *(OK|FAILED) *\] (.*)\.(.*?)' + TIME_RE + '$'
StopTestAt(s, i) ==
    LET a == Lit(s, i, "[")
        b == Many0(s, a, " ")
        c == IF Lit(s, b, "OK") > 0 THEN Lit(s, b, "OK") ELSE Lit(s, b, "FAILED")
        d == Many0(s, c, " ")
        j == Lit(s, d, "] ")
        dots == {k \in j..LineEnd(s) : Char(s, k) = "."}
        dot == SetMax(dots)
        m == LazyEnd(s, dot + 1)
    IN  IF j = 0 \/ dots = {} THEN None
        ELSE Some(<<Some(Sub(s, b, c - 1)), Some(Sub(s, j, dot - 1)),
                    Some(Sub(s, dot + 1, m)), TimeAt(s, m + 1)>>)

\* r'^$' : '^' matches at the start only, '$' at the end or before a final
\* newline
BlankAt(s, i) == IF i = 1 /\ LineEnd(s) = 0 THEN Some(<<>>) ELSE None

(***************************************************************************)
(* State.  parser and output hold the fields of the Parser and ListOutput  *)
(* objects.  The remaining variables observe one call of Parser.process:   *)
(* the line it was given, the calls it made on the output sink, what was   *)
(* written to the terminal, and the exception that ended it, if any.       *)
(***************************************************************************)
VARIABLES parser, output, line, calls, stdout, handled, raised,
          last_start_index, last_case_event, failed_markers, running_test, history,
          terminal, well_formed, last_start_count

vars == <<parser, output, line, calls, stdout, handled, raised,
          last_start_index, last_case_event, failed_markers, running_test, history,
          terminal, well_formed, last_start_count>>

\* colorama's escape sequences; "~" stands for the ESC character.
Fore_BLUE == "~[34m"

Fore_GREEN == "~[32m"

Fore_RED == "~[31m"

Style_RESET_ALL == "~[0m"

\* "v" and "x" stand for the check mark and the ballot cross.
UnicodeCharacters == [empty |-> " ", success |-> "v", fail |-> "x"]

AsciiCharacters == [empty |-> "  ", success |-> "OK", fail |-> " X"]

\* --print_time's default, and the default of ListOutput's own parameter
DefaultPrintTime == 100

CtorPrintTime == 0

\* Parser.__init__
ParserInit ==
    [total_test_count |-> 0, total_test_case_count |-> 0, test_case_index |-> 0,
     current_test_case |-> None, current_test_count |-> 0, current_test |-> None,
     test_index |-> 0, current_fail_count |-> 0]

\* ListOutput.__init__
ListOutputInit(characters, print_time) ==
    [characters |-> characters, print_time |-> print_time,
     needs_newline |-> FALSE, max_line_len |-> 0, progress_len |-> 0,
     test_case_index |-> None, total_test_case_count |-> None]

(***************************************************************************)
(* The operations below take and give a record w: the two objects, and the *)
(* sink calls, terminal writes and exception of the line being processed.  *)
(***************************************************************************)
\* print(text, end=''): one write to the terminal
Write(w, text) == [w EXCEPT !.stdout = Append(@, text)]

\* a call on the sink, as the parser makes it
Called(w, call) == [w EXCEPT !.calls = Append(@, call)]

\* '%*i' % (width, n): n right-justified in width columns
RightJustify(text, width) == Spaces(width - Len(text)) \o text

\* ListOutput.progress; '%*i' of None raises TypeError (None here), str(None)
\* is 'None'
progress(current, total) ==
    LET t == IF total = None THEN "None" ELSE str(total[1])
    IN  IF current = None THEN None
        ELSE Some(RightJustify(str(current[1]), Len(t)) \o " / " \o t)

\* ListOutput.space_for_progress
space_for_progress(current, total) ==
    LET pr == progress(current, total)
    IN  IF pr = None THEN None ELSE Some(Spaces(Len(pr[1])))

\* The counter column as it would be if print_line did not test
\* test_case_index for None
ProgressColumn_NoNoneCheck(o, test_case_index, total_test_case_count, force_progress) ==
    IF o.needs_newline \/ force_progress
    THEN progress(test_case_index, total_test_case_count)
    ELSE space_for_progress(test_case_index, total_test_case_count)

\* The first part of ListOutput.print_line: the counter column, or None when
\* computing it raises.
ProgressColumn(o, test_case_index, total_test_case_count, force_progress) ==
    IF test_case_index = None THEN Some(Spaces(o.progress_len))
    ELSE IF o.needs_newline \/ force_progress
    THEN progress(test_case_index, total_test_case_count)
    ELSE space_for_progress(test_case_index, total_test_case_count)

\* ListOutput.print_line
print_line(w, test_case, test_case_index, total_test_case_count, character, color, details, force_progress) ==
    LET o == w.output
        w1 == IF o.needs_newline THEN Write(w, "\r")
              ELSE [w EXCEPT !.output.max_line_len = 0]
        col == ProgressColumn(o, test_case_index, total_test_case_count, force_progress)
        progress_len == IF test_case_index = None THEN o.progress_len ELSE Len(col[1])
        colored == color /= None /\ color[1] /= ""
        color_len == IF colored THEN Len(color[1]) + Len(color[1]) ELSE 0
        text == col[1] \o (IF colored THEN color[1] ELSE "")
                    \o " " \o character \o " " \o test_case
                    \o (IF details /= None /\ details[1] /= "" THEN details[1] ELSE "")
                    \o (IF colored THEN Style_RESET_ALL ELSE "")
        line_len == Len(text) - color_len
        max_line_len == Max(w1.output.max_line_len, line_len)
    IN  IF col = None THEN [w1 EXCEPT !.raised = "TypeError"]
        ELSE Write([w1 EXCEPT !.output.progress_len = progress_len,
                              !.output.max_line_len = max_line_len],
                   text \o Spaces(max_line_len - line_len))

\* ListOutput.raw_output
raw_output(w, test, text) ==
    LET w1 == IF w.output.needs_newline
              THEN [Write(w, "\n") EXCEPT !.output.needs_newline = FALSE]
              ELSE w
    IN  Write(w1, text)

\* ListOutput.start_test_case
ListOutput_start_test_case(w, test_case, test_case_index, total_test_case_count, where) ==
    LET w1 == print_line(w, test_case, test_case_index, total_test_case_count,
                         w.output.characters.empty, Some(Fore_BLUE), None, TRUE)
    IN  IF w1.raised /= "" THEN w1
        ELSE [w1 EXCEPT !.output.needs_newline = TRUE,
                        !.output.test_case_index = test_case_index,
                        !.output.total_test_case_count = total_test_case_count]

\* The time annotation as it would be with > in place of >=
TimeSuffix_Strict(o, time) ==
    IF time /= None /\ time[1] > o.print_time
    THEN " (" \o str(time[1]) \o " ms)" ELSE ""

\* ' (%s ms)' % time when the time is printed, else nothing; print() adds
\* the newline
TimeSuffix(o, time) ==
    IF time /= None /\ time[1] >= o.print_time
    THEN " (" \o str(time[1]) \o " ms)" ELSE ""

\* ListOutput.stop_test_case
ListOutput_stop_test_case(w, test_case, test_case_index, total_test_case_count, test_count, fail_count, time) ==
    LET w1 == IF fail_count = 0
              THEN print_line(w, test_case, test_case_index, total_test_case_count,
                              w.output.characters.success, Some(Fore_GREEN), None, FALSE)
              ELSE print_line(w, test_case, test_case_index, total_test_case_count,
                              w.output.characters.fail, Some(Fore_RED),
                              Some(" - " \o str(fail_count) \o "/" \o str(test_count)
                                         \o " failed"),
                              FALSE)
    IN  IF w1.raised /= "" THEN w1
        ELSE [Write(w1, TimeSuffix(w1.output, time) \o "\n")
                EXCEPT !.output.needs_newline = FALSE]

\* ListOutput.start_test
ListOutput_start_test(w, test_case, test, test_index, test_count) ==
    print_line(w, test_case, w.output.test_case_index, w.output.total_test_case_count,
               w.output.characters.empty, Some(Fore_BLUE), Some("." \o test), FALSE)

\* ListOutput.stop_test as it would be if it painted its line for every
\* status
stop_test_PaintsEveryStatus(w, status, test_case, test, test_index, test_count, time) ==
    LET w1 == print_line(w, test_case, None, None, w.output.characters.fail,
                         Some(Fore_RED), Some("." \o test), FALSE)
    IN  IF w1.raised /= "" THEN w1
        ELSE [Write(w1, "\n") EXCEPT !.output.needs_newline = FALSE]

\* ListOutput.stop_test
ListOutput_stop_test(w, status, test_case, test, test_index, test_count, time) ==
    IF status = "FAILED"
    THEN LET w1 == print_line(w, test_case, None, None, w.output.characters.fail,
                              Some(Fore_RED), Some("." \o test), FALSE)
         IN  IF w1.raised /= "" THEN w1
             ELSE [Write(w1, "\n") EXCEPT !.output.needs_newline = FALSE]
    ELSE w

(***************************************************************************)
(* Parser's handlers.  Each takes the groups of its pattern's match.       *)
(***************************************************************************)
\* Parser.start
Parser_start(w, total_test_count, total_test_case_count) ==
    [w EXCEPT !.parser.total_test_count = int(total_test_count[1]),
              !.parser.total_test_case_count = int(total_test_case_count[1])]

\* Parser.start_stop_test_case as it would be if the open branch did not
\* reset current_fail_count
start_stop_test_case_NoReset(w, test_count, test_case, where, time) ==
    LET t == IF time /= None THEN Some(int(time[1])) ELSE None
        w1 == [w EXCEPT !.parser.current_test = None]
        p == w1.parser
    IN  IF ~Truthy(p.current_test_case)
        THEN LET w2 == [w1 EXCEPT !.parser.current_test_case = test_case,
                                  !.parser.current_test_count = int(test_count[1]),
                                  !.parser.test_index = 0,
                                  !.parser.test_case_index = @ + 1]
                 call == [op |-> "start_test_case", test_case |-> test_case[1],
                          test_case_index |-> w2.parser.test_case_index,
                          total_test_case_count |-> w2.parser.total_test_case_count,
                          where |-> where]
             IN  ListOutput_start_test_case(Called(w2, call), call.test_case,
                     Some(call.test_case_index), Some(call.total_test_case_count),
                     call.where)
        ELSE LET call == [op |-> "stop_test_case", test_case |-> test_case[1],
                          test_case_index |-> p.test_case_index,
                          total_test_case_count |-> p.total_test_case_count,
                          test_count |-> p.current_test_count,
                          fail_count |-> p.current_fail_count, time |-> t]
                 w2 == ListOutput_stop_test_case(Called(w1, call), call.test_case,
                           Some(call.test_case_index), Some(call.total_test_case_count),
                           call.test_count, call.fail_count, call.time)
             IN  [w2 EXCEPT !.parser.current_test_case = None]

\* Parser.start_stop_test_case as it would be if test_case_index were
\* incremented when a test case closes instead of when it opens
start_stop_test_case_IndexOnClose(w, test_count, test_case, where, time) ==
    LET t == IF time /= None THEN Some(int(time[1])) ELSE None
        w1 == [w EXCEPT !.parser.current_test = None]
        p == w1.parser
    IN  IF ~Truthy(p.current_test_case)
        THEN LET w2 == [w1 EXCEPT !.parser.current_test_case = test_case,
                                  !.parser.current_test_count = int(test_count[1]),
                                  !.parser.current_fail_count = 0,
                                  !.parser.test_index = 0]
                 call == [op |-> "start_test_case", test_case |-> test_case[1],
                          test_case_index |-> w2.parser.test_case_index,
                          total_test_case_count |-> w2.parser.total_test_case_count,
                          where |-> where]
             IN  ListOutput_start_test_case(Called(w2, call), call.test_case,
                     Some(call.test_case_index), Some(call.total_test_case_count),
                     call.where)
        ELSE LET call == [op |-> "stop_test_case", test_case |-> test_case[1],
                          test_case_index |-> p.test_case_index,
                          total_test_case_count |-> p.total_test_case_count,
                          test_count |-> p.current_test_count,
                          fail_count |-> p.current_fail_count, time |-> t]
                 w2 == ListOutput_stop_test_case(Called(w1, call), call.test_case,
                           Some(call.test_case_index), Some(call.total_test_case_count),
                           call.test_count, call.fail_count, call.time)
             IN  [w2 EXCEPT !.parser.current_test_case = None,
                            !.parser.test_case_index = @ + 1]

\* Parser.start_stop_test_case as it would be if a close reported the test
\* count of the closing marker
start_stop_test_case_CountFromClose(w, test_count, test_case, where, time) ==
    LET t == IF time /= None THEN Some(int(time[1])) ELSE None
        w1 == [w EXCEPT !.parser.current_test = None]
        p == w1.parser
    IN  IF ~Truthy(p.current_test_case)
        THEN LET w2 == [w1 EXCEPT !.parser.current_test_case = test_case,
                                  !.parser.current_test_count = int(test_count[1]),
                                  !.parser.current_fail_count = 0,
                                  !.parser.test_index = 0,
                                  !.parser.test_case_index = @ + 1]
                 call == [op |-> "start_test_case", test_case |-> test_case[1],
                          test_case_index |-> w2.parser.test_case_index,
                          total_test_case_count |-> w2.parser.total_test_case_count,
                          where |-> where]
             IN  ListOutput_start_test_case(Called(w2, call), call.test_case,
                     Some(call.test_case_index), Some(call.total_test_case_count),
                     call.where)
        ELSE LET call == [op |-> "stop_test_case", test_case |-> test_case[1],
                          test_case_index |-> p.test_case_index,
                          total_test_case_count |-> p.total_test_case_count,
                          test_count |-> int(test_count[1]),
                          fail_count |-> p.current_fail_count, time |-> t]
                 w2 == ListOutput_stop_test_case(Called(w1, call), call.test_case,
                           Some(call.test_case_index), Some(call.total_test_case_count),
                           call.test_count, call.fail_count, call.time)
             IN  IF w2.raised /= "" THEN w2
                 ELSE [w2 EXCEPT !.parser.current_test_case = None]

\* Parser.start_stop_test_case
Parser_start_stop_test_case(w, test_count, test_case, where, time) ==
    LET t == IF time /= None THEN Some(int(time[1])) ELSE None
        w1 == [w EXCEPT !.parser.current_test = None]
        p == w1.parser
    IN  IF ~Truthy(p.current_test_case)
        THEN LET w2 == [w1 EXCEPT !.parser.current_test_case = test_case,
                                  !.parser.current_test_count = int(test_count[1]),
                                  !.parser.current_fail_count = 0,
                                  !.parser.test_index = 0,
                                  !.parser.test_case_index = @ + 1]
                 call == [op |-> "start_test_case", test_case |-> test_case[1],
                          test_case_index |-> w2.parser.test_case_index,
                          total_test_case_count |-> w2.parser.total_test_case_count,
                          where |-> where]
             IN  ListOutput_start_test_case(Called(w2, call), call.test_case,
                     Some(call.test_case_index), Some(call.total_test_case_count),
                     call.where)
        ELSE LET call == [op |-> "stop_test_case", test_case |-> test_case[1],
                          test_case_index |-> p.test_case_index,
                          total_test_case_count |-> p.total_test_case_count,
                          test_count |-> p.current_test_count,
                          fail_count |-> p.current_fail_count, time |-> t]
                 w2 == ListOutput_stop_test_case(Called(w1, call), call.test_case,
                           Some(call.test_case_index), Some(call.total_test_case_count),
                           call.test_count, call.fail_count, call.time)
             IN  IF w2.raised /= "" THEN w2
                 ELSE [w2 EXCEPT !.parser.current_test_case = None]

\* Parser.start_test as it would be if it ignored a RUN marker that comes
\* while no test case is open
start_test_OnlyInOpenCase(w, test_case, test) ==
    LET w1 == [w EXCEPT !.parser.current_test = None,
                        !.parser.test_index = @ + 1]
        call == [op |-> "start_test", test_case |-> test_case[1], test |-> test[1],
                 test_index |-> w1.parser.test_index,
                 test_count |-> w1.parser.current_test_count]
    IN  IF w.parser.current_test_case = None THEN w
        ELSE ListOutput_start_test(Called(w1, call), call.test_case, call.test,
                                   call.test_index, call.test_count)

\* Parser.start_test
Parser_start_test(w, test_case, test) ==
    LET w1 == [w EXCEPT !.parser.current_test = None,
                        !.parser.test_index = @ + 1]
        call == [op |-> "start_test", test_case |-> test_case[1], test |-> test[1],
                 test_index |-> w1.parser.test_index,
                 test_count |-> w1.parser.current_test_count]
    IN  ListOutput_start_test(Called(w1, call), call.test_case, call.test,
                              call.test_index, call.test_count)

\* Parser.stop_test as it would be if it counted every test stop marker as a
\* failure
stop_test_CountsEvery(w, status, test_case, test, time) ==
    LET w1 == [w EXCEPT !.parser.current_test = None,
                        !.parser.current_fail_count = @ + 1]
        call == [op |-> "stop_test", status |-> status[1], test_case |-> test_case[1],
                 test |-> test[1], test_index |-> w1.parser.test_index,
                 test_count |-> w1.parser.current_test_count, time |-> time]
    IN  ListOutput_stop_test(Called(w1, call), call.status, call.test_case, call.test,
                             call.test_index, call.test_count, call.time)

\* Parser.stop_test as it would be if it did not count the FAILED markers
stop_test_CountsNone(w, status, test_case, test, time) ==
    LET w1 == [w EXCEPT !.parser.current_test = None]
        call == [op |-> "stop_test", status |-> status[1], test_case |-> test_case[1],
                 test |-> test[1], test_index |-> w1.parser.test_index,
                 test_count |-> w1.parser.current_test_count, time |-> time]
    IN  ListOutput_stop_test(Called(w1, call), call.status, call.test_case, call.test,
                             call.test_index, call.test_count, call.time)

\* Parser.stop_test
Parser_stop_test(w, status, test_case, test, time) ==
    LET w1 == [w EXCEPT !.parser.current_test = None,
                        !.parser.current_fail_count =
                            IF status[1] = "FAILED" THEN @ + 1 ELSE @]
        call == [op |-> "stop_test", status |-> status[1], test_case |-> test_case[1],
                 test |-> test[1], test_index |-> w1.parser.test_index,
                 test_count |-> w1.parser.current_test_count, time |-> time]
    IN  ListOutput_stop_test(Called(w1, call), call.status, call.test_case, call.test,
                             call.test_index, call.test_count, call.time)

\* Parser.blank_line: what the handler returns, None or False
Parser_blank_line(w) ==
    IF Truthy(w.parser.current_test_case) THEN Some(FALSE) ELSE None

(***************************************************************************)
(* Input.  main feeds Parser.process the lines of sys.stdin one at a time, *)
(* each with the newline that ends it.                                     *)
(***************************************************************************)
RunHeaders ==
    {"Running 2 tests from 1 test case\n"}

Boundaries ==
    {"[----------] 2 tests from Suite\n",
     "[----------] 2 tests from Suite (12 ms total)\n",
     "[----------] 2 tests from Suite (99 ms total)\n",
     "[----------] 1 test from Suite (100 ms total)\n",
     "[----------] 1 test from Suite, where TypeParam = int (100 ms total)\n",
     "[----------] 0 tests from \n"}

TestMarkers ==
    {"[ RUN ] Suite.A\n",
     "[ OK ] Suite.A (5 ms)\n",
     "[ RUN ] Suite.B\n",
     "[ FAILED ] Suite.B\n"}

BlankLines == {"\n"}

\* Lines that match no pattern, and one that matches two
OtherLines ==
    {"  Expected:  x == 1\n",
     "[--- ] 2 tests from Suite\n",
     "Running 2 tests from 1 test case [ RUN ] Suite.A\n"}

Lines == RunHeaders \cup Boundaries \cup TestMarkers \cup BlankLines \cup OtherLines

(***************************************************************************)
(* LineHandler                                                             *)
(***************************************************************************)
\* LineHandler._handlers: the order in which Parser's class body registers
\* them
Handlers == <<"start", "start_stop_test_case", "start_test", "stop_test", "blank_line">>

\* regex.search(line).groups() of the handler's pattern
SearchGroups(h, text) ==
    LET positions == 1..(Len(text) + 1)
    IN  CASE h = "start" -> Search([i \in positions |-> StartAt(text, i)])
          [] h = "start_stop_test_case" ->
                 Search([i \in positions |-> TestCaseAt(text, i)])
          [] h = "start_test" -> Search([i \in positions |-> StartTestAt(text, i)])
          [] h = "stop_test" -> Search([i \in positions |-> StopTestAt(text, i)])
          [] h = "blank_line" -> Search([i \in positions |-> BlankAt(text, i)])

\* The matches of the input lines, computed once
MatchTable == [text \in Lines |-> [k \in 1..Len(Handlers) |-> SearchGroups(Handlers[k], text)]]

Groups(k, text) == MatchTable[text][k]

\* f(self, *m.groups()): the state the handler leaves and what it returns
CallHandler(h, w, g) ==
    CASE h = "start" -> [w |-> Parser_start(w, g[1], g[2]), result |-> None]
      [] h = "start_stop_test_case" ->
             [w |-> Parser_start_stop_test_case(w, g[1], g[2], g[3], g[4]),
              result |-> None]
      [] h = "start_test" -> [w |-> Parser_start_test(w, g[1], g[2]), result |-> None]
      [] h = "stop_test" ->
             [w |-> Parser_stop_test(w, g[1], g[2], g[3], g[4]), result |-> None]
      [] h = "blank_line" -> [w |-> w, result |-> Parser_blank_line(w)]

\* LineHandler.add's wrapper: False without a match, the handler's result
\* when it is not None, else True
wrapper(k, w, text) ==
    LET Return(r) ==
            IF r.w.raised /= "" THEN [w |-> r.w, ret |-> FALSE]
            ELSE IF r.result /= None THEN [w |-> r.w, ret |-> r.result[1]]
            ELSE [w |-> r.w, ret |-> TRUE]
        Matched(m) ==
            IF m = None THEN [w |-> w, ret |-> FALSE]
            ELSE Return(CallHandler(Handlers[k], w, m[1]))
    IN  Matched(Groups(k, text))

\* LineHandler.process as it would be if it went on to the later handlers
\* after one has handled the line
RECURSIVE ProcessFrom_EveryMatch(_, _, _)
ProcessFrom_EveryMatch(k, w, text) ==
    IF k > Len(Handlers) THEN [w |-> w, ret |-> FALSE, by |-> ""]
    ELSE LET Later(r) == ProcessFrom_EveryMatch(k + 1, r.w, text)
             Handled(r) ==
                 IF r.w.raised /= "" THEN [w |-> r.w, ret |-> FALSE, by |-> Handlers[k]]
                 ELSE IF r.ret
                 THEN [w |-> Later(r).w, ret |-> TRUE, by |-> Handlers[k]]
                 ELSE Later(r)
         IN  Handled(wrapper(k, w, text))

\* LineHandler.process from the k-th handler on: True at the first handler
\* that returns true, None (here FALSE: only its truth is used) after the last
RECURSIVE ProcessFrom(_, _, _)
ProcessFrom(k, w, text) ==
    IF k > Len(Handlers) THEN [w |-> w, ret |-> FALSE, by |-> ""]
    ELSE LET Handled(r) ==
                 IF r.w.raised /= "" THEN [w |-> r.w, ret |-> FALSE, by |-> Handlers[k]]
                 ELSE IF r.ret THEN [w |-> r.w, ret |-> TRUE, by |-> Handlers[k]]
                 ELSE ProcessFrom(k + 1, r.w, text)
         IN  Handled(wrapper(k, w, text))

LineHandler_process(w, text) == ProcessFrom(1, w, text)

\* Parser.process as it would be if it ignored what LineHandler.process
\* returns
Parser_process_AlwaysRaw(w, text) ==
    LET Call(r) == [op |-> "raw_output", test |-> r.w.parser.current_test, line |-> text]
        Raw(r) == raw_output(Called(r.w, Call(r)), Call(r).test, Call(r).line)
        Rest(r) == IF r.w.raised /= "" THEN r ELSE [r EXCEPT !.w = Raw(r)]
    IN  Rest(LineHandler_process(w, text))

\* Parser.process as it would be if passing a line through restarted the
\* count of the tests
Parser_process_RestartsOnRaw(w, text) ==
    LET Call(r) == [op |-> "raw_output", test |-> r.w.parser.current_test, line |-> text]
        Raw(r) == raw_output(Called([r.w EXCEPT !.parser.test_index = 0], Call(r)),
                             Call(r).test, Call(r).line)
        Rest(r) == IF r.w.raised /= "" THEN r
                   ELSE IF ~r.ret THEN [r EXCEPT !.w = Raw(r)]
                   ELSE r
    IN  Rest(LineHandler_process(w, text))

\* Parser.process
Parser_process(w, text) ==
    LET Call(r) == [op |-> "raw_output", test |-> r.w.parser.current_test, line |-> text]
        Raw(r) == raw_output(Called(r.w, Call(r)), Call(r).test, Call(r).line)
        Rest(r) == IF r.w.raised /= "" THEN r
                   ELSE IF ~r.ret THEN [r EXCEPT !.w = Raw(r)]
                   ELSE r
    IN  Rest(LineHandler_process(w, text))

\* Caps on the counters that the input would otherwise let grow for ever
MaxTestCaseIndex == 2

MaxTestIndex == 2

MaxFailCount == 2

WithinBounds(p) ==
    /\ p.test_case_index <= MaxTestCaseIndex
    /\ p.test_index <= MaxTestIndex
    /\ p.current_fail_count <= MaxFailCount

(***************************************************************************)
(* What an observer of the sink has seen so far.  These variables are      *)
(* written from the calls the parser makes and are read by no operation.   *)
(***************************************************************************)
CallsOf(cs, op) == {i \in 1..Len(cs) : cs[i].op = op}

\* the index carried by the latest TestCaseStart (0 before the first)
ObserveStartIndex(prev, cs) ==
    IF CallsOf(cs, "start_test_case") = {} THEN prev
    ELSE cs[SetMax(CallsOf(cs, "start_test_case"))].test_case_index

\* the latest of TestCaseStart and TestCaseEnd ("" before the first)
ObserveCaseEvent(prev, cs) ==
    LET ev == CallsOf(cs, "start_test_case") \cup CallsOf(cs, "stop_test_case")
    IN  IF ev = {} THEN prev ELSE cs[SetMax(ev)].op

\* the number of FAILED test stop markers since the latest TestCaseStart
ObserveFailed(prev, cs) ==
    IF CallsOf(cs, "start_test_case") /= {} THEN 0
    ELSE prev + Cardinality({i \in CallsOf(cs, "stop_test") : cs[i].status = "FAILED"})

\* the test whose RUN marker was processed and whose OK/FAILED marker was not
ObserveRunning(prev, cs) ==
    LET ev == CallsOf(cs, "start_test") \cup CallsOf(cs, "stop_test")
        last == cs[SetMax(ev)]
    IN  IF ev = {} THEN prev
        ELSE IF last.op = "start_test" THEN Some(last.test) ELSE None

\* The input of the round-trip scenario
Scenario ==
    <<"Running 2 tests from 1 test case\n",
      "[----------] 2 tests from Suite\n",
      "[ RUN ] Suite.A\n",
      "[ OK ] Suite.A (5 ms)\n",
      "[ RUN ] Suite.B\n",
      "[ FAILED ] Suite.B\n",
      "[----------] 2 tests from Suite (12 ms total)\n">>

\* The calls and terminal writes of every line so far, kept for as long as
\* the input so far is the beginning of Scenario; None after that.
ObserveHistory(prev, text, cs, out) ==
    IF prev /= None /\ Len(prev[1]) < Len(Scenario) /\ text = Scenario[Len(prev[1]) + 1]
    THEN Some(Append(prev[1], [calls |-> cs, stdout |-> out]))
    ELSE None

\* The test count of the boundary marker that the latest TestCaseStart was
\* emitted for (0 before the first)
ObserveStartCount(prev, text, cs) ==
    IF CallsOf(cs, "start_test_case") = {} THEN prev
    ELSE int(Groups(2, text)[1][1][1])

\* Whether the input so far is one in which every RUN marker came inside an
\* open test case with no other test running, every OK/FAILED marker named
\* the running test, and no boundary marker came while a test was running
ObserveWellFormed(prev, case_event, running, cs) ==
    /\ prev
    /\ \A i \in CallsOf(cs, "start_test") :
           case_event = "start_test_case" /\ running = None
    /\ \A i \in CallsOf(cs, "stop_test") : running = Some(cs[i].test)
    /\ CallsOf(cs, "start_test_case") \cup CallsOf(cs, "stop_test_case") /= {}
           => running = None

(***************************************************************************)
(* The terminal that print() writes to, as far as the cursor's line goes:  *)
(* col is the column of the cursor, width the number of columns of the     *)
(* line that hold a character, and over tells (while the writes of one     *)
(* input line are applied) whether a character was put on a column that    *)
(* already held one.  A carriage return moves the cursor to column 0, a    *)
(* newline starts an empty line, an escape sequence "~[...m" takes no      *)
(* column, any other character fills the column under the cursor.          *)
(***************************************************************************)
TerminalInit == [col |-> 0, width |-> 0, over |-> FALSE]

\* the position of the "m" that ends the escape sequence starting at i
RECURSIVE EscapeEnd(_, _)
EscapeEnd(s, i) ==
    IF i >= Len(s) \/ Char(s, i) = "m" THEN i ELSE EscapeEnd(s, i + 1)

\* the first position from i on that holds a newline, a carriage return or
\* the start of an escape sequence (Len(s) + 1 when there is none)
RECURSIVE TextEnd(_, _)
TextEnd(s, i) ==
    IF i > Len(s) \/ Char(s, i) \in {"\n", "\r", "~"} THEN i ELSE TextEnd(s, i + 1)

\* n >= 1 characters that fill a column each, written to the terminal t
TerminalText(t, n) ==
    [col |-> t.col + n, width |-> Max(t.width, t.col + n),
     over |-> t.over \/ t.col < t.width]

\* the characters of s from position i on, written to the terminal t
RECURSIVE TerminalPut(_, _, _)
TerminalPut(t, s, i) ==
    LET Text(j) == TerminalPut(TerminalText(t, j - i), s, j)
    IN  IF i > Len(s) THEN t
        ELSE IF Char(s, i) = "\n"
        THEN TerminalPut([t EXCEPT !.col = 0, !.width = 0], s, i + 1)
        ELSE IF Char(s, i) = "\r" THEN TerminalPut([t EXCEPT !.col = 0], s, i + 1)
        ELSE IF Char(s, i) = "~" THEN TerminalPut(t, s, EscapeEnd(s, i) + 1)
        ELSE Text(TextEnd(s, i))

\* the first n writes of one line's processing, applied to the terminal t
RECURSIVE TerminalWrites(_, _, _)
TerminalWrites(t, writes, n) ==
    IF n = 0 THEN t
    ELSE TerminalPut(TerminalWrites(t, writes, n - 1), writes[n], 1)

\* The terminal between two input lines
ObserveTerminal(prev, writes) ==
    [TerminalWrites(prev, writes, Len(writes)) EXCEPT !.over = FALSE]

\* The command lines modelled: no flag, and --ascii --print_time 0
Configurations ==
    {[characters |-> UnicodeCharacters, print_time |-> DefaultPrintTime],
     [characters |-> AsciiCharacters, print_time |-> CtorPrintTime]}

\* main: Parser(ListOutput(**get_output_kwargs())), before the first line
Init ==
    /\ parser = ParserInit
    /\ \E c \in Configurations : output = ListOutputInit(c.characters, c.print_time)
    /\ line = ""
    /\ calls = <<>>
    /\ stdout = <<>>
    /\ handled = ""
    /\ raised = ""
    /\ last_start_index = 0
    /\ last_case_event = ""
    /\ failed_markers = 0
    /\ running_test = None
    /\ history = Some(<<>>)
    /\ terminal = TerminalInit
    /\ well_formed = TRUE
    /\ last_start_count = 0

\* The two objects as a line finds them
World == [parser |-> parser, output |-> output, calls |-> <<>>, stdout |-> <<>>,
          raised |-> ""]

\* One round of main's loop: parser.process(line).  An exception ends the
\* program.
Process(text) ==
    /\ raised = ""
    /\ \E r \in {Parser_process(World, text)} :
           /\ WithinBounds(r.w.parser)
           /\ parser' = r.w.parser
           /\ output' = r.w.output
           /\ calls' = r.w.calls
           /\ stdout' = r.w.stdout
           /\ raised' = r.w.raised
           /\ handled' = r.by
           /\ line' = text
           /\ last_start_index' = ObserveStartIndex(last_start_index, r.w.calls)
           /\ last_case_event' = ObserveCaseEvent(last_case_event, r.w.calls)
           /\ failed_markers' = ObserveFailed(failed_markers, r.w.calls)
           /\ running_test' = ObserveRunning(running_test, r.w.calls)
           /\ history' = ObserveHistory(history, text, r.w.calls, r.w.stdout)
           /\ terminal' = ObserveTerminal(terminal, r.w.stdout)
           /\ well_formed' = ObserveWellFormed(well_formed, last_case_event,
                                               running_test, r.w.calls)
           /\ last_start_count' = ObserveStartCount(last_start_count, text, r.w.calls)

main == \E text \in Lines : Process(text)

Next == main

Spec == Init /\ [][Next]_vars

(***************************************************************************)
(* Properties                                                              *)
(***************************************************************************)
TestCaseEnds == CallsOf(calls, "stop_test_case")

TestCaseStarts == CallsOf(calls, "start_test_case")

RawLines == CallsOf(calls, "raw_output")

\* C1 as stated: every TestCaseEnd, whatever the input, reports
\* failCount <= testCount.
C1_FailCountNeverAboveTestCount ==
    \A i \in TestCaseEnds : calls[i].fail_count <= calls[i].test_count

\* C1 amended: a TestCaseEnd reports failCount <= testCount whenever no more
\* FAILED test stop markers than the declared test count were processed
\* since the TestCaseStart of the case; failCount is never negative.
C1_FailCountWithinTestCount ==
    \A i \in TestCaseEnds :
        /\ calls[i].fail_count >= 0
        /\ failed_markers <= calls[i].test_count
               => calls[i].fail_count <= calls[i].test_count

\* A TestCaseEnd that reports a failure, of a case with no more FAILED
\* markers than declared tests
C1_Witness ==
    \E i \in TestCaseEnds :
        /\ calls[i].fail_count > 0
        /\ failed_markers <= calls[i].test_count

\* C2: the first TestCaseStart carries index 1, every later one carries one
\* more than the TestCaseStart before it, and test_case_index never
\* decreases at any step.
C2_StartIndexCountsUp ==
    [][/\ parser'.test_case_index >= parser.test_case_index
       /\ \A i \in CallsOf(calls', "start_test_case") :
              calls'[i].test_case_index = last_start_index + 1]_vars

\* A second TestCaseStart has been emitted
C2_Witness ==
    \E i \in TestCaseStarts : calls[i].test_case_index = 2 /\ last_start_index = 2

\* C3 as stated: an unmatched line reaches the sink as a RawLine with the
\* text of the input line, attributed to the test whose RUN marker was
\* processed and whose OK/FAILED marker was not yet, and to none otherwise.
C3_RawLineAttributedToRunningTest ==
    \A i \in RawLines : calls[i].line = line /\ calls[i].test = running_test

\* C4 as stated: a blank line processed while no test case is open makes no
\* sink call, writes nothing and changes no parser or renderer state; a
\* blank line processed while a test case is open reaches the sink as a
\* RawLine.
C4_BlankLineConsumedOnlyOutsideCase ==
    [][line' \in BlankLines =>
         IF parser.current_test_case = None
         THEN calls' = <<>> /\ stdout' = <<>> /\ parser' = parser /\ output' = output
         ELSE /\ Len(calls') = 1
              /\ calls'[1].op = "raw_output"
              /\ calls'[1].line = line']_vars

\* C5 as stated: a boundary marker is an open exactly when no test case is
\* open and a close otherwise, whatever name it captures, so TestCaseStart
\* and TestCaseEnd alternate, starting with TestCaseStart.
C5_BoundaryOpensThenCloses ==
    [][/\ handled' = "start_stop_test_case" =>
              /\ Len(calls') = 1
              /\ calls'[1].op = IF parser.current_test_case = None
                                THEN "start_test_case" ELSE "stop_test_case"
       /\ CallsOf(calls', "start_test_case") /= {}
              => last_case_event /= "start_test_case"
       /\ CallsOf(calls', "stop_test_case") /= {}
              => last_case_event = "start_test_case"]_vars

LastWrite == stdout[Len(stdout)]

\* C6: on TestCaseEnd the renderer ends the line with " (<elapsedMs> ms)"
\* exactly when elapsedMs is present and at least the threshold, and with a
\* bare line break otherwise; with threshold 100, a marker with 99 ms gives
\* the bare line break, one with 100 ms gives " (100 ms)", one without a
\* time gives the bare line break.
C6_TimeShownFromThreshold ==
    \A i \in TestCaseEnds :
        LET time == calls[i].time
            shown == time /= None /\ time[1] >= output.print_time
        IN  /\ shown => LastWrite = " (" \o ToString(time[1]) \o " ms)\n"
            /\ ~shown => LastWrite = "\n"
            /\ output.print_time = 100 =>
                 /\ line = "[----------] 2 tests from Suite (99 ms total)\n"
                        => time = Some(99) /\ LastWrite = "\n"
                 /\ line = "[----------] 1 test from Suite (100 ms total)\n"
                        => time = Some(100) /\ LastWrite = " (100 ms)\n"
                 /\ line = "[----------] 2 tests from Suite\n"
                        => time = None /\ LastWrite = "\n"

\* A TestCaseEnd whose elapsed time equals the threshold 100 has been
\* rendered
C6_Witness ==
    \E i \in TestCaseEnds :
        /\ output.print_time = 100
        /\ calls[i].time = Some(100)
        /\ LastWrite = " (100 ms)\n"

\* The events of the round-trip scenario, line by line
ScenarioCalls ==
    <<<<>>,
      <<[op |-> "start_test_case", test_case |-> "Suite", test_case_index |-> 1,
         total_test_case_count |-> 1, where |-> None]>>,
      <<[op |-> "start_test", test_case |-> "Suite", test |-> "A", test_index |-> 1,
         test_count |-> 2]>>,
      <<[op |-> "stop_test", status |-> "OK", test_case |-> "Suite", test |-> "A",
         test_index |-> 1, test_count |-> 2, time |-> Some("5")]>>,
      <<[op |-> "start_test", test_case |-> "Suite", test |-> "B", test_index |-> 2,
         test_count |-> 2]>>,
      <<[op |-> "stop_test", status |-> "FAILED", test_case |-> "Suite", test |-> "B",
         test_index |-> 2, test_count |-> 2, time |-> None]>>,
      <<[op |-> "stop_test_case", test_case |-> "Suite", test_case_index |-> 1,
         total_test_case_count |-> 1, test_count |-> 2, fail_count |-> 1,
         time |-> Some(12)]>>>>

\* The scenario has been fed, from the start, to a parser run with the
\* default threshold
ScenarioDone ==
    /\ history /= None
    /\ Len(history[1]) = Len(Scenario)
    /\ output.print_time = DefaultPrintTime

\* What the scenario yields up to the end of the TestCaseEnd line: the
\* events, nothing written for the passing test, a line of its own for the
\* failing test, and the TestCaseEnd line with the detail "1/2 failed"
ScenarioYield(h) ==
    /\ \A k \in 1..Len(Scenario) : h[k].calls = ScenarioCalls[k]
    /\ h[4].stdout = <<>>
    /\ h[6].stdout = <<"\r", "     ~[31m x Suite.B~[0m", "\n">>
    /\ h[7].stdout[1] = "     ~[31m x Suite - 1/2 failed~[0m"
    /\ Len(h[7].stdout) = 2

\* C7 as stated: under the default threshold the scenario yields these
\* events and the TestCaseEnd line ends with " (12 ms)".
C7_ScenarioShowsTime ==
    ScenarioDone => /\ ScenarioYield(history[1])
                    /\ history[1][7].stdout[2] = " (12 ms)\n"

\* C7 amended: under the default threshold (100) the scenario yields these
\* events and the TestCaseEnd line, with the detail " - 1/2 failed", ends
\* with a bare line break: 12 ms is below the threshold.
C7_ScenarioHidesTime ==
    ScenarioDone => /\ ScenarioYield(history[1])
                    /\ history[1][7].stdout[2] = "\n"

C7_Witness == ScenarioDone /\ line = Scenario[7] /\ TestCaseEnds /= {}

WithWhere == "[----------] 1 test from Suite, where TypeParam = int (100 ms total)\n"

WithoutWhere == "[----------] 1 test from Suite (100 ms total)\n"

\* C8 as stated: in every parser state with a test case open, a boundary
\* marker with a where clause emits a TestCaseEnd with the same fields, and
\* leaves the same parser state, as the same marker without the clause.
C8_WhereClauseWithoutEffectOnClose ==
    (parser.current_test_case /= None /\ raised = "") =>
        LET a == Parser_process(World, WithWhere).w
            b == Parser_process(World, WithoutWhere).w
        IN  /\ CallsOf(a.calls, "stop_test_case") /= {}
            /\ a.calls = b.calls
            /\ a.parser = b.parser

\* C9: one call of Parser.process makes at most one call on the sink; a
\* line handled by a rule is not also emitted as a RawLine; a line handled
\* by no rule gives exactly one RawLine and nothing else.
C9_AtMostOneSinkCall ==
    /\ Len(calls) <= 1
    /\ handled /= "" => RawLines = {}
    /\ (handled = "" /\ line \in Lines) => Len(calls) = 1 /\ RawLines = {1}

\* A line that no rule handles has been passed on, and nothing else called
C9_Witness ==
    /\ handled = ""
    /\ line = "  Expected:  x == 1\n"
    /\ Len(calls) = 1
    /\ calls[1].op = "raw_output"

TestEvents == CallsOf(calls, "start_test") \cup CallsOf(calls, "stop_test")

\* C11 as stated: whatever the input, a TestStart or TestStop is emitted
\* only while a test case is open, between a TestCaseStart and its
\* TestCaseEnd.
C11_TestEventsOnlyInOpenCase ==
    TestEvents /= {} =>
        parser.current_test_case /= None /\ last_case_event = "start_test_case"

\* C11 amended: every RUN and every OK/FAILED marker emits its TestStart or
\* TestStop and leaves current_test_case alone, whether or not a test case
\* is open; a test case is open at that moment exactly when the latest
\* boundary event was a TestCaseStart.
C11_TestEventsFollowMarkers ==
    [][handled' \in {"start_test", "stop_test"} =>
         /\ Len(calls') = 1
         /\ calls'[1].op = handled'
         /\ parser'.current_test_case = parser.current_test_case
         /\ parser.current_test_case /= None <=> last_case_event = "start_test_case"]_vars

\* A TestStart has been emitted inside an open test case
C11_Witness ==
    /\ CallsOf(calls, "start_test") /= {}
    /\ parser.current_test_case /= None
    /\ last_case_event = "start_test_case"

\* C12 as stated: between two input lines, needs_newline is true exactly
\* when an unfinished line is pending on the terminal, that is when the
\* cursor is not at the start of a line.
C12_NeedsNewlineIffLinePending ==
    output.needs_newline <=> terminal.col > 0

\* C13 as stated: in an input where every RUN marker comes inside an open
\* test case and is followed by its OK/FAILED marker, with unrecognized
\* lines anywhere between, the cursor is at the start of a line whenever
\* the text of a RawLine is written.
C13_RawTextAtLineStart ==
    [][(well_formed' /\ CallsOf(calls', "raw_output") /= {}) =>
         TerminalWrites(terminal, stdout', Len(stdout') - 1).col = 0]_vars

FailedStops(cs) == {i \in CallsOf(cs, "stop_test") : cs[i].status = "FAILED"}

\* C14 as stated: when a failed TestStop arrives while a progress line is
\* pending, the failure line is painted on a line of its own, no character
\* of it is put over the pending progress line, and afterwards a newline
\* has been committed and needs_newline is false.
C14_FailureLineSeparate ==
    [][(output.needs_newline /\ FailedStops(calls') /= {}) =>
         /\ ~TerminalWrites(terminal, stdout', Len(stdout')).over
         /\ terminal'.col = 0
         /\ ~output'.needs_newline]_vars

PassedStops(cs) == {i \in CallsOf(cs, "stop_test") : cs[i].status = "OK"}

\* C15: a TestStop with status OK writes nothing to the terminal and leaves
\* every field of the renderer unchanged.
C15_PassedStopPaintsNothing ==
    [][PassedStops(calls') /= {} =>
         /\ stdout' = <<>>
         /\ output' = output
         /\ terminal' = terminal]_vars

\* A passed TestStop has reached the renderer while a progress line was
\* pending
C15_Witness ==
    /\ PassedStops(calls) /= {}
    /\ output.needs_newline
    /\ terminal.col > 0
    /\ stdout = <<>>

\* the terminal after print_line's carriage return and its line
Repainted == TerminalWrites(terminal, stdout', 2)

\* C16 as stated: whenever print_line repaints over a pending line, the
\* columns it writes (text and padding, colour codes apart) cover every line
\* painted since the last fresh line, so that no character of an earlier
\* paint remains to the right of the cursor; max_line_len does not decrease
\* in a repaint.
C16_RepaintCoversPendingLine ==
    [][(output.needs_newline /\ Len(stdout') >= 2 /\ stdout'[1] = "\r") =>
         /\ Repainted.col >= terminal.width
         /\ Repainted.col = Repainted.width
         /\ output'.max_line_len >= output.max_line_len]_vars

\* the handlers whose pattern matches the text, by their place in Handlers
Matching(text) == {k \in 1..Len(Handlers) : Groups(k, text) /= None}

\* what the k-th handler alone does with the text in the current state
Alone(k, text) == CallHandler(Handlers[k], World, Groups(k, text)[1])

\* C17: for a line that the patterns of several rules match, only the
\* handler of the earliest matching rule is applied: the step is the step
\* of that handler alone, and no later handler changes state or calls the
\* sink.
C17_OnlyFirstMatchingRuleApplied ==
    [][Cardinality(Matching(line')) >= 2 =>
         \A k \in {SetMin(Matching(line'))} : \A a \in {Alone(k, line')} :
             /\ handled' = Handlers[k]
             /\ parser' = a.w.parser
             /\ output' = a.w.output
             /\ calls' = a.w.calls
             /\ stdout' = a.w.stdout]_vars

\* A line that the run header pattern and the test start pattern both match
\* has been handled as a run header, with no TestStart
C17_Witness ==
    /\ line = "Running 2 tests from 1 test case [ RUN ] Suite.A\n"
    /\ Cardinality(Matching(line)) = 2
    /\ handled = "start"
    /\ calls = <<>>

\* C18: the failCount of every TestCaseEnd is the number of FAILED test stop
\* markers processed since the boundary marker that opened the case,
\* whatever case names the markers carry; FAILED markers from before the
\* open do not count, and current_fail_count is never negative.
C18_FailCountIsFailedMarkers ==
    /\ parser.current_fail_count >= 0
    /\ parser.current_fail_count = failed_markers
    /\ \A i \in TestCaseEnds : calls[i].fail_count = failed_markers

\* A second test case has been closed with one FAILED marker since its open
C18_Witness ==
    \E i \in TestCaseEnds :
        /\ calls[i].test_case_index = 2
        /\ calls[i].fail_count = 1
        /\ failed_markers = 1

\* C19: every TestCaseEnd carries the index of the TestCaseStart that opened
\* the case and the test count of the boundary marker that opened it, not
\* the count on the closing marker; after the close current_test_case is
\* None, and the next boundary marker is an open.
C19_CloseReportsWhatOpenSet ==
    [][/\ \A i \in CallsOf(calls', "stop_test_case") :
              /\ calls'[i].test_case_index = last_start_index
              /\ calls'[i].test_count = last_start_count
              /\ parser'.current_test_case = None
       /\ (last_case_event = "stop_test_case" /\ handled' = "start_stop_test_case")
              => CallsOf(calls', "start_test_case") /= {}]_vars

\* A case opened by a marker of 2 tests has been closed by a marker of 1
\* test
C19_Witness ==
    /\ line = "[----------] 1 test from Suite (100 ms total)\n"
    /\ \E i \in TestCaseEnds :
           /\ calls[i].test_count = 2
           /\ calls[i].test_case_index = last_start_index
    /\ last_start_count = 2
    /\ parser.current_test_case = None

\* C20: processing a line that is passed through as a RawLine, be it an
\* unrecognized line or a blank line inside an open test case, leaves every
\* field of the parser unchanged.
C20_RawLineLeavesParserAlone ==
    [][CallsOf(calls', "raw_output") /= {} => parser' = parser]_vars

\* A blank line has been passed through inside an open test case, after a
\* test was started
C20_Witness ==
    /\ line \in BlankLines
    /\ RawLines /= {}
    /\ parser.current_test_case /= None
    /\ parser.test_index > 0

====
